---------------------------- MODULE Spec2Model ----------------------------
(***************************************************************************)
(* A model of the two batch jobs of HPP_Final_MVP:                         *)
(*                                                                         *)
(*   scripts/fetch_feeds.py  the feed job: fetch every configured feed,    *)
(*                           merge, deduplicate, rank, cap, write          *)
(*                           feeds.json and the inline block of index.html *)
(*   gmail_monitor.py        the digest job: authenticate, search & fetch, *)
(*                           notify, advance the checkpoint file           *)
(*                                                                         *)
(* Text is modelled as a sequence of tokens.  A link is a sequence of      *)
(* characters; a publication date is <<>> (the empty string) or            *)
(* <<body, clock, zone>>; a document is a sequence of text fragments in    *)
(* which each marker is one token.  Time is counted in whole units.        *)
(***************************************************************************)
EXTENDS Integers, Sequences, FiniteSets, TLC

VARIABLES
    \* ---- feed job (scripts/fetch_feeds.py) ----
    pc,             \* position of the script: fetch, merge, json, inline, final, exited
    feed_i,         \* index in FEEDS of the feed the fetch loop is at
    all_articles,   \* articles collected so far, in collection order
    ok_count,       \* feeds fetched
    err_count,      \* feeds that raised
    results,        \* per feed attempted: what its fetch gave (history)
    dedup,          \* the deduplicated list, then ranked and capped
    seen_first,     \* the list the dedup loop built, before the sort (history)
    payload,        \* json.dumps of the payload, as text
    feeds_json,     \* content of feeds.json
    index_html,     \* content of index.html
    html_at_start,  \* content of index.html when the run began (history)
    log,            \* what the run printed, in order
    exit_code,      \* the process's exit status, meaningful once pc = "exited"
    inline_writes,  \* successful inline writes of index.html so far
    \* ---- digest job (gmail_monitor.py) ----
    gpc,            \* position of main(): idle, auth, begin, search, notify, save, done
    now,            \* the wall clock, epoch seconds
    last_run_file,  \* content of LAST_RUN_FILE
    mailbox,        \* keyword-matching messages the provider holds
    args,           \* the parsed command line of the current run
    since,          \* lower bound of this run's search
    run_start_epoch,\* the clock captured at line 401
    messages,       \* what fetch_matching_messages returned
    send_calls,     \* calls of the send endpoint in the current run
    sent,           \* what send_alert returned in the current run (history)
    save_calls,     \* writes of LAST_RUN_FILE in the current run
    file_at_start,  \* content of LAST_RUN_FILE when the run began (history)
    gexit,          \* exit status of the run, meaningful once gpc = "done"
    runs,           \* digest runs started
    skipped,        \* ids whose detail fetch raised HttpError in this run (history)
    fatal,          \* the sys.exit(1) this run took: none, credentials, list (history)
    prev,           \* the run before this one: saved, returned (history)
    \* ---- fetch_rss (scripts/fetch_feeds.py), observed on its own ----
    rss_pc,         \* idle, or called / returned
    rss_feed,       \* the feed argument: label, filtered, fetch_limit
    rss_root,       \* the parsed document: its item and atom:entry elements
    rss_items       \* the list fetch_rss returned

feedVars == <<pc, feed_i, all_articles, ok_count, err_count, results, dedup,
              seen_first, payload, feeds_json, index_html, html_at_start, log, exit_code,
              inline_writes>>

digestVars == <<gpc, now, last_run_file, mailbox, args, since, run_start_epoch,
                messages, send_calls, sent, save_calls, file_at_start, gexit,
                runs, skipped, fatal, prev>>

rssVars == <<rss_pc, rss_feed, rss_root, rss_items>>

vars == <<feedVars, digestVars, rssVars>>

-----------------------------------------------------------------------------
(* Bounds of the model *)

MaxCollected == 3   \* articles all the feeds of a run return together
MaxDocLen == 4      \* tokens of an index.html drawn as input
MaxPayloadLen == 1  \* tokens of a payload text drawn as input
MaxInlineWrites == 2 \* inline writes followed by another run of the job
MaxClock == 12      \* the clock stops here
MaxRuns == 2        \* digest runs in a row
MaxMsgs == 2        \* messages that arrive in the mailbox
DayLen == 5         \* seconds of a calendar day, scaled to the clock
MaxEntries == 2     \* item and entry elements of a feed document
DescKeep == 2       \* characters of a description an article keeps, scaled

-----------------------------------------------------------------------------
(* Generic helpers on sequences *)

Min(a, b) == IF a <= b THEN a ELSE b

Range(s) == {s[i] : i \in DOMAIN s}

SeqsUpTo(S, n) == UNION {[1..k -> S] : k \in 0..n}

RECURSIVE Flatten(_)
Flatten(ss) == IF ss = <<>> THEN <<>> ELSE Head(ss) \o Flatten(Tail(ss))

-----------------------------------------------------------------------------
(* Feed job: configuration *)

MAX_TOTAL == 50

\* The FEEDS table, cut to three entries of both kinds, with the fetch
\* limits scaled down.
FEEDS == << [label |-> 1, filtered |-> FALSE, fetch_limit |-> 2],
            [label |-> 2, filtered |-> TRUE, fetch_limit |-> 2],
            [label |-> 3, filtered |-> FALSE, fetch_limit |-> 2] >>

MARKER_START == "/*START*/"
MARKER_END == "/*END*/"

-----------------------------------------------------------------------------
(* Feed job: the Date Normalizer *)

\* A date string is <<>> or <<body, clock, zone>>: body "rfc" stands for
\* "Mon, 01 Jan 2024 hh:00:00 " and "iso" for "2024-01-01Thh:00:00".
ClockVal(c) == CASE c = "1" -> 1 [] c = "2" -> 2 [] c = "3" -> 3 [] OTHER -> 0
ClockTokens == {"1", "2", "3"}

\* What %z accepts: a numeric offset, or (Python >= 3.7) the letter Z.
NumericZones == {"+0000", "+0100", "Z"}
ZoneOffset(z) == IF z = "+0100" THEN 1 ELSE 0
\* What %Z accepts: UTC, GMT and the local zone's names (UTC on the runner).
NamedZones == {"GMT", "UTC"}

\* datetime.min.replace(tzinfo=timezone.utc)
MinInstant == -1000
DATETIME_MIN == [aware |-> TRUE, t |-> MinInstant]

FORMATS == <<"rfc %z", "rfc %Z", "iso %z", "iso Z">>

WellFormed(s, body) == Len(s) = 3 /\ s[1] = body /\ s[2] \in ClockTokens

\* datetime.strptime(s, fmt): <<datetime>>, or <<>> for ValueError.  %z
\* yields an aware datetime, %Z and a literal Z a naive one.
strptime(s, fmt) ==
    CASE fmt = "rfc %z" ->
           IF WellFormed(s, "rfc") /\ s[3] \in NumericZones
           THEN <<[aware |-> TRUE, t |-> ClockVal(s[2]) - ZoneOffset(s[3])]>>
           ELSE <<>>
      [] fmt = "rfc %Z" ->
           IF WellFormed(s, "rfc") /\ s[3] \in NamedZones
           THEN <<[aware |-> FALSE, t |-> ClockVal(s[2])]>>
           ELSE <<>>
      [] fmt = "iso %z" ->
           IF WellFormed(s, "iso") /\ s[3] \in NumericZones
           THEN <<[aware |-> TRUE, t |-> ClockVal(s[2]) - ZoneOffset(s[3])]>>
           ELSE <<>>
      [] fmt = "iso Z" ->
           IF WellFormed(s, "iso") /\ s[3] = "Z"
           THEN <<[aware |-> FALSE, t |-> ClockVal(s[2])]>>
           ELSE <<>>

RECURSIVE FirstParse(_, _)
FirstParse(s, k) ==
    IF k > Len(FORMATS) THEN DATETIME_MIN
    ELSE IF strptime(s, FORMATS[k]) # <<>> THEN strptime(s, FORMATS[k])[1]
    ELSE FirstParse(s, k + 1)

parse_date(s) == IF s = <<>> THEN DATETIME_MIN ELSE FirstParse(s, 1)

\* datetime's ordering: defined between two aware or two naive values,
\* TypeError between an aware and a naive one.
Comparable(x, y) == x.aware = y.aware

-----------------------------------------------------------------------------
(* Feed job: merge, dedup, rank *)

RECURSIVE RStripSlash(_)
RStripSlash(s) ==
    IF s # <<>> /\ s[Len(s)] = "/" THEN RStripSlash(SubSeq(s, 1, Len(s) - 1))
    ELSE s

\* s.split("?")[0]
BeforeQuery(s) ==
    IF \E i \in DOMAIN s : s[i] = "?"
    THEN SubSeq(s, 1, (CHOOSE i \in DOMAIN s :
                          s[i] = "?" /\ \A j \in 1..(i - 1) : s[j] # "?") - 1)
    ELSE s

\* Mutant: the trailing "/" is kept in the key.
LinkKey_KeepSlash(link) == BeforeQuery(link)

\* a["link"].split("?")[0].rstrip("/")
LinkKey(link) == RStripSlash(BeforeQuery(link))

RECURSIVE DedupFrom(_, _, _, _)
DedupFrom(arts, i, seen, out) ==
    IF i > Len(arts) THEN out
    ELSE IF LinkKey(arts[i].link) \in seen
         THEN DedupFrom(arts, i + 1, seen, out)
         ELSE DedupFrom(arts, i + 1, seen \cup {LinkKey(arts[i].link)},
                        Append(out, arts[i]))

DedupLoop(arts) == DedupFrom(arts, 1, {}, <<>>)

SortKey(a) == parse_date(a.pubDate)

\* list.sort raises TypeError as soon as it compares an aware key with a
\* naive one, and ordering the list needs such a comparison whenever both
\* kinds occur.
SortRaises(arts) ==
    \E i, j \in DOMAIN arts : ~Comparable(SortKey(arts[i]), SortKey(arts[j]))

\* Insert a behind every element whose key is not smaller: descending, stable.
InsertDesc(sorted, a) ==
    LET later == {i \in DOMAIN sorted : SortKey(sorted[i]).t < SortKey(a).t}
        p == IF later = {} THEN Len(sorted) + 1
             ELSE CHOOSE i \in later : \A j \in later : i <= j
    IN  SubSeq(sorted, 1, p - 1) \o <<a>> \o SubSeq(sorted, p, Len(sorted))

RECURSIVE SortDescFrom(_, _, _)
SortDescFrom(arts, i, sorted) ==
    IF i > Len(arts) THEN sorted
    ELSE SortDescFrom(arts, i + 1, InsertDesc(sorted, arts[i]))

\* dedup.sort(key=..., reverse=True)
SortDesc(arts) == SortDescFrom(arts, 1, <<>>)

\* dedup[:MAX_TOTAL]
Cap(arts) == SubSeq(arts, 1, Min(Len(arts), MAX_TOTAL))

\* json.dumps(payload, ensure_ascii=False): the articles' text, verbatim.
ArticleText(a) == <<"{">> \o a.link \o <<",">> \o a.pubDate \o <<"}">>
JsonDumps(arts) ==
    <<"[">> \o Flatten([i \in DOMAIN arts |-> ArticleText(arts[i])]) \o <<"]">>

-----------------------------------------------------------------------------
(* Feed job: the inline block of index.html *)

HasMarker(html, m) == \E i \in DOMAIN html : html[i] = m

InlineJs(text) == <<MARKER_START, "var __FEEDS__ = ">> \o text \o <<";", MARKER_END>>

FirstAt(html, m, from) ==
    LET hits == {i \in from..Len(html) : html[i] = m}
    IN  IF hits = {} THEN 0 ELSE CHOOSE i \in hits : \A j \in hits : i <= j

\* pattern.sub(lambda _: inline_js, html) with the non-greedy pattern
\* START.*?END: every match, left to right, is replaced.
RECURSIVE PatternSub(_, _)
PatternSub(html, block) ==
    LET s == FirstAt(html, MARKER_START, 1)
        e == IF s = 0 THEN 0 ELSE FirstAt(html, MARKER_END, s + 1)
    IN  IF s = 0 \/ e = 0 THEN html
        ELSE SubSeq(html, 1, s - 1) \o block
             \o PatternSub(SubSeq(html, e + 1, Len(html)), block)


-----------------------------------------------------------------------------
(* Feed job: inputs of the model *)

Links == {<<"a", "/">>, <<"a", "?", "u">>, <<"b">>}

\* empty, a numeric offset, and a named zone
PubDates == {<<>>, <<"rfc", "3", "+0100">>, <<"rfc", "1", "GMT">>}

\* What fetch_rss can return for a feed: title and description are carried
\* through the merge untouched and are left out of the record.
ArticlesOf(f) == [source : {f.label}, link : Links, pubDate : PubDates]

IndexDocs == {<<"h">>,
              <<"h", MARKER_START, "o">>,
              <<"h", MARKER_START, "o", MARKER_END, "t">>}

Entry(stream, msg, label) == [stream |-> stream, msg |-> msg, label |-> label]

\* fetch_rss's variables while a whole job is the one observed.
RssIdle ==
    /\ rss_pc = "idle"
    /\ rss_feed = [label |-> 0, filtered |-> FALSE, fetch_limit |-> 0]
    /\ rss_root = [items |-> <<>>, entries |-> <<>>]
    /\ rss_items = <<>>

\* The digest job's variables while the feed job is the one observed.
DigestIdle ==
    /\ gpc = "idle" /\ now = 0 /\ last_run_file = <<>> /\ mailbox = {}
    /\ args = [auth |-> FALSE, since |-> <<>>, dry_run |-> FALSE]
    /\ since = 0 /\ run_start_epoch = 0 /\ messages = <<>>
    /\ send_calls = 0 /\ sent = "none" /\ save_calls = 0
    /\ file_at_start = <<>>
    /\ gexit = 0 /\ runs = 0
    /\ skipped = {} /\ fatal = "none"
    /\ prev = [saved |-> FALSE, returned |-> {}]

Init ==
    /\ pc = "fetch"
    /\ feed_i = 1
    /\ all_articles = <<>>
    /\ ok_count = 0
    /\ err_count = 0
    /\ results = <<>>
    /\ dedup = <<>>
    /\ seen_first = <<>>
    /\ payload = <<>>
    /\ feeds_json = <<"old">>
    /\ index_html \in IndexDocs
    /\ html_at_start = index_html
    /\ log = <<>>
    /\ exit_code = 0
    /\ inline_writes = 0
    /\ DigestIdle
    /\ RssIdle

-----------------------------------------------------------------------------
(* Feed job: the script, top to bottom *)

AfterFetch == IF feed_i + 1 > Len(FEEDS) THEN "merge" ELSE "fetch"

\* lines 249-255: fetch_rss returned
FetchOk ==
    /\ pc = "fetch"
    /\ feed_i <= Len(FEEDS)
    /\ \E arts \in SeqsUpTo(ArticlesOf(FEEDS[feed_i]),
                              Min(FEEDS[feed_i].fetch_limit,
                                  MaxCollected - Len(all_articles))) :
          /\ all_articles' = all_articles \o arts
          /\ results' = Append(results, [label |-> FEEDS[feed_i].label,
                                         ok |-> TRUE, arts |-> arts])
    /\ ok_count' = ok_count + 1
    /\ log' = Append(log, Entry("stdout", "OK", FEEDS[feed_i].label))
    /\ feed_i' = feed_i + 1
    /\ pc' = AfterFetch
    /\ UNCHANGED <<err_count, dedup, seen_first, payload, feeds_json, index_html,
                   html_at_start, exit_code, inline_writes>>
    /\ UNCHANGED digestVars
    /\ UNCHANGED rssVars

\* lines 256-258: fetch_rss raised (network, timeout, malformed XML)
FetchErr ==
    /\ pc = "fetch"
    /\ feed_i <= Len(FEEDS)
    /\ err_count' = err_count + 1
    /\ results' = Append(results, [label |-> FEEDS[feed_i].label,
                                   ok |-> FALSE, arts |-> <<>>])
    /\ log' = Append(log, Entry("stderr", "ERR", FEEDS[feed_i].label))
    /\ feed_i' = feed_i + 1
    /\ pc' = AfterFetch
    /\ UNCHANGED <<all_articles, ok_count, dedup, seen_first, payload, feeds_json,
                   index_html, html_at_start, exit_code, inline_writes>>
    /\ UNCHANGED digestVars
    /\ UNCHANGED rssVars

\* lines 260-277: dedup loop, sort, cap, payload.  A TypeError of the sort
\* is caught nowhere: the interpreter prints the traceback and exits 1.
MergeRank ==
    /\ pc = "merge"
    /\ seen_first' = DedupLoop(all_articles)
    /\ IF SortRaises(seen_first')
       THEN /\ dedup' = seen_first'
            /\ payload' = payload
            /\ log' = Append(log, Entry("stderr", "Traceback", 0))
            /\ pc' = "exited"
            /\ exit_code' = 1
       ELSE /\ dedup' = Cap(SortDesc(seen_first'))
            /\ payload' = JsonDumps(dedup')
            /\ log' = Append(log, Entry("stdout", "Total", Len(dedup')))
            /\ pc' = "json"
            /\ exit_code' = exit_code
    /\ UNCHANGED <<feed_i, all_articles, ok_count, err_count, results, feeds_json,
                   index_html, html_at_start, inline_writes>>
    /\ UNCHANGED digestVars
    /\ UNCHANGED rssVars

\* lines 280-283
WriteFeedsJsonOk ==
    /\ pc = "json"
    /\ feeds_json' = payload
    /\ log' = Append(log, Entry("stdout", "Wrote feeds.json", 0))
    /\ pc' = "inline"
    /\ UNCHANGED <<feed_i, all_articles, ok_count, err_count, results, dedup, seen_first,
                   payload, index_html, html_at_start, exit_code, inline_writes>>
    /\ UNCHANGED digestVars
    /\ UNCHANGED rssVars

\* lines 284-285: open failed (file untouched) or the dump failed after
\* open(..., "w") had truncated the file
WriteFeedsJsonFail ==
    /\ pc = "json"
    /\ feeds_json' \in {feeds_json, <<>>}
    /\ log' = Append(log, Entry("stderr", "WARNING feeds.json", 0))
    /\ pc' = "inline"
    /\ UNCHANGED <<feed_i, all_articles, ok_count, err_count, results, dedup, seen_first,
                   payload, index_html, html_at_start, exit_code, inline_writes>>
    /\ UNCHANGED digestVars
    /\ UNCHANGED rssVars

\* lines 292-293 raise, caught at 318
InlineReadFail ==
    /\ pc = "inline"
    /\ log' = Append(log, Entry("stderr", "WARNING index.html", 0))
    /\ pc' = "final"
    /\ UNCHANGED <<feed_i, all_articles, ok_count, err_count, results, dedup, seen_first,
                   payload, feeds_json, index_html, html_at_start, exit_code,
                   inline_writes>>
    /\ UNCHANGED digestVars
    /\ UNCHANGED rssVars

MarkersPresent(html) == HasMarker(html, MARKER_START) /\ HasMarker(html, MARKER_END)

\* Mutant: missing markers are fatal, the run exits 1.
InlineMarkersMissing_Fatal ==
    /\ pc = "inline"
    /\ ~MarkersPresent(index_html)
    /\ log' = Append(log, Entry("stderr", "WARNING markers", 0))
    /\ pc' = "exited"
    /\ exit_code' = 1
    /\ UNCHANGED <<feed_i, all_articles, ok_count, err_count, results, dedup,
                   seen_first, payload, feeds_json, index_html, html_at_start,
                   inline_writes>>
    /\ UNCHANGED digestVars
    /\ UNCHANGED rssVars

\* lines 295-298: sys.exit(0), re-raised at 316-317
InlineMarkersMissing ==
    /\ pc = "inline"
    /\ ~MarkersPresent(index_html)
    /\ log' = Append(log, Entry("stderr", "WARNING markers", 0))
    /\ pc' = "exited"
    /\ exit_code' = 0
    /\ UNCHANGED <<feed_i, all_articles, ok_count, err_count, results, dedup, seen_first,
                   payload, feeds_json, index_html, html_at_start, inline_writes>>
    /\ UNCHANGED digestVars
    /\ UNCHANGED rssVars

\* lines 300-314
InlineWriteOk ==
    /\ pc = "inline"
    /\ MarkersPresent(index_html)
    /\ index_html' = PatternSub(index_html, InlineJs(payload))
    /\ inline_writes' = inline_writes + 1
    /\ log' = Append(log, Entry("stdout", "Updated index.html", 0))
    /\ pc' = "final"
    /\ UNCHANGED <<feed_i, all_articles, ok_count, err_count, results, dedup, seen_first,
                   payload, feeds_json, html_at_start, exit_code>>
    /\ UNCHANGED digestVars
    /\ UNCHANGED rssVars

\* lines 312-313 raise, caught at 318: open failed (file untouched) or the
\* write failed after open(..., "w") had truncated the file
InlineWriteFail ==
    /\ pc = "inline"
    /\ MarkersPresent(index_html)
    /\ index_html' \in {index_html, <<>>}
    /\ log' = Append(log, Entry("stderr", "WARNING index.html", 0))
    /\ pc' = "final"
    /\ UNCHANGED <<feed_i, all_articles, ok_count, err_count, results, dedup, seen_first,
                   payload, feeds_json, html_at_start, exit_code, inline_writes>>
    /\ UNCHANGED digestVars
    /\ UNCHANGED rssVars

\* line 322
FinalExit ==
    /\ pc = "final"
    /\ pc' = "exited"
    /\ exit_code' = 0
    /\ UNCHANGED <<feed_i, all_articles, ok_count, err_count, results, dedup, seen_first,
                   payload, feeds_json, index_html, html_at_start, log,
                   inline_writes>>
    /\ UNCHANGED digestVars
    /\ UNCHANGED rssVars

Next ==
    \/ FetchOk
    \/ FetchErr
    \/ MergeRank
    \/ WriteFeedsJsonOk
    \/ WriteFeedsJsonFail
    \/ InlineReadFail
    \/ InlineMarkersMissing
    \/ InlineWriteOk
    \/ InlineWriteFail
    \/ FinalExit

Spec == Init /\ [][Next]_vars

-----------------------------------------------------------------------------
(* Feed job: the inline write on its own.  The job is observed from the    *)
(* sink stage on, for any index.html and any payload text, and it is run   *)
(* again with the same payload.  json.dumps copies feed text (a title, a   *)
(* description, a pubDate) verbatim, so a payload can hold marker text.    *)

DocTokens == {"h", MARKER_START, MARKER_END}
PayloadTokens == {"p", MARKER_START, MARKER_END}

InitInline ==
    /\ pc = "inline"
    /\ feed_i = Len(FEEDS) + 1
    /\ all_articles = <<>>
    /\ ok_count = Len(FEEDS)
    /\ err_count = 0
    /\ results = <<>>
    /\ dedup = <<>>
    /\ seen_first = <<>>
    /\ payload \in SeqsUpTo(PayloadTokens, MaxPayloadLen)
    /\ feeds_json = payload
    /\ index_html \in SeqsUpTo(DocTokens, MaxDocLen)
    /\ html_at_start = index_html
    /\ log = <<>>
    /\ exit_code = 0
    /\ inline_writes = 0
    /\ DigestIdle
    /\ RssIdle

\* The next scheduled run, arriving at line 291 with the same payload.
NextRun ==
    /\ pc = "exited"
    /\ inline_writes < MaxInlineWrites
    /\ pc' = "inline"
    /\ log' = <<>>
    /\ html_at_start' = index_html
    /\ UNCHANGED <<feed_i, all_articles, ok_count, err_count, results, dedup,
                   seen_first, payload, feeds_json, index_html, exit_code,
                   inline_writes>>
    /\ UNCHANGED digestVars
    /\ UNCHANGED rssVars

NextInline ==
    \/ InlineReadFail
    \/ InlineMarkersMissing
    \/ InlineWriteOk
    \/ InlineWriteFail
    \/ FinalExit
    \/ NextRun

SpecInline == InitInline /\ [][NextInline]_vars

-----------------------------------------------------------------------------
(* Claims about the feed job *)

LogHas(msg) == \E i \in DOMAIN log : log[i].msg = msg

MergeDone == pc \notin {"fetch", "merge"}

SortCrashed == pc = "exited" /\ exit_code = 1

IndexOf(s, x) == CHOOSE i \in DOMAIN s : s[i] = x

\* C1: every feed is attempted exactly once in configuration order, a failing
\* feed contributes no articles and counts as one error, the articles of the
\* succeeding feeds are all in all_articles in configuration order, and the
\* merge and both sink writes are executed afterwards.
C1_FetchLoop ==
    /\ Len(results) = feed_i - 1
    /\ \A k \in DOMAIN results : results[k].label = FEEDS[k].label
    /\ ok_count = Cardinality({k \in DOMAIN results : results[k].ok})
    /\ err_count = Cardinality({k \in DOMAIN results : ~results[k].ok})
    /\ \A k \in DOMAIN results : ~results[k].ok => results[k].arts = <<>>
    /\ all_articles = Flatten([k \in DOMAIN results |-> results[k].arts])
    /\ MergeDone => ok_count + err_count = Len(FEEDS)

C1_SinksExecuted ==
    pc = "exited" =>
        /\ LogHas("Total")
        /\ LogHas("Wrote feeds.json") \/ LogHas("WARNING feeds.json")
        /\ \/ LogHas("Updated index.html")
           \/ LogHas("WARNING index.html")
           \/ LogHas("WARNING markers")

C1_FeedFailureIsolation == C1_FetchLoop /\ C1_SinksExecuted

\* The key as the claim words it: the link up to its first "?", without
\* the "/" characters it ends with.
CanonicalKey(link) ==
    LET cut == IF \E i \in DOMAIN link : link[i] = "?"
               THEN Min(Len(link),
                        (CHOOSE i \in DOMAIN link :
                            link[i] = "?" /\ \A j \in 1..(i - 1) : link[j] # "?") - 1)
               ELSE Len(link)
        keep == {n \in 0..cut :
                    /\ n > 0 => link[n] # "/"
                    /\ \A i \in (n + 1)..cut : link[i] = "/"}
    IN  SubSeq(link, 1, CHOOSE n \in keep : TRUE)

NoDupKeys(arts) ==
    \A i, j \in DOMAIN arts :
        CanonicalKey(arts[i].link) = CanonicalKey(arts[j].link) => i = j

FirstWithKey(arts, k) ==
    CHOOSE i \in DOMAIN arts :
        /\ CanonicalKey(arts[i].link) = k
        /\ \A j \in 1..(i - 1) : CanonicalKey(arts[j].link) # k

\* C2: after the merge step no two articles of the output share a canonical
\* link key, and for every key among the collected articles the article kept
\* is its first occurrence in collection order.
C2_Dedup ==
    MergeDone =>
        /\ NoDupKeys(seen_first)
        /\ NoDupKeys(dedup)
        /\ \A i \in DOMAIN all_articles :
              \E d \in DOMAIN seen_first :
                  CanonicalKey(seen_first[d].link) = CanonicalKey(all_articles[i].link)
        /\ \A d \in DOMAIN seen_first :
              seen_first[d] = all_articles[FirstWithKey(all_articles,
                                  CanonicalKey(seen_first[d].link))]
        /\ \A d, e \in DOMAIN seen_first : d < e =>
              FirstWithKey(all_articles, CanonicalKey(seen_first[d].link))
                < FirstWithKey(all_articles, CanonicalKey(seen_first[e].link))
        /\ \A d \in DOMAIN dedup :
              dedup[d] = all_articles[FirstWithKey(all_articles,
                             CanonicalKey(dedup[d].link))]

C2_Witness ==
    /\ pc = "json"
    /\ Len(seen_first) = 2
    /\ Len(all_articles) = 3
    /\ all_articles[1].link = <<"a", "/">>
    /\ all_articles[2].link = <<"b">>
    /\ all_articles[3].link = <<"a", "?", "u">>
    /\ all_articles[3].source # all_articles[1].source
    /\ seen_first[1] = all_articles[1]

\* out is the first MAX_TOTAL elements of src in descending, stable order.
RankedCap(src, out) ==
    /\ Len(out) = Min(Len(src), MAX_TOTAL)
    /\ \A i \in DOMAIN out : \E k \in DOMAIN src : out[i] = src[k]
    /\ \A i, j \in DOMAIN out : i < j =>
          /\ out[i] # out[j]
          /\ Comparable(SortKey(out[i]), SortKey(out[j]))
          /\ SortKey(out[i]).t >= SortKey(out[j]).t
          /\ SortKey(out[i]).t = SortKey(out[j]).t =>
                IndexOf(src, out[i]) < IndexOf(src, out[j])
          /\ SortKey(out[i]) = DATETIME_MIN => SortKey(out[j]) = DATETIME_MIN
    /\ \A k \in DOMAIN src : (\A i \in DOMAIN out : out[i] # src[k]) =>
          \A i \in DOMAIN out : SortKey(src[k]).t <= SortKey(out[i]).t

\* C3: the final article sequence is the first MAX_TOTAL elements of the
\* deduplicated set in descending, stable timestamp order.
C3_RankAndCap == MergeDone => RankedCap(seen_first, dedup)

\* C4: parse_date returns the result of the first format that parses, or the
\* sentinel, and the values it returns for any two collected pubDate strings
\* are mutually comparable, so the sort cannot fail.
C4_ParseDateComparable ==
    /\ \A i \in DOMAIN all_articles :
          LET s == all_articles[i].pubDate
              x == parse_date(s)
          IN  \/ /\ x = DATETIME_MIN
                 /\ \A k \in DOMAIN FORMATS : strptime(s, FORMATS[k]) = <<>>
              \/ \E k \in DOMAIN FORMATS :
                    /\ strptime(s, FORMATS[k]) = <<x>>
                    /\ \A m \in 1..(k - 1) : strptime(s, FORMATS[m]) = <<>>
    /\ \A i, j \in DOMAIN all_articles :
          Comparable(parse_date(all_articles[i].pubDate),
                     parse_date(all_articles[j].pubDate))
    /\ ~LogHas("Traceback")

\* C5: every run of the feed job terminates with exit code 0.
C5_ExitZero == pc = "exited" => exit_code = 0

\* The three claims above fail in no other way: the run exits nonzero only
\* when the sort raised on a mix of aware and naive keys, and a run that did
\* not raise satisfies C1 and C3.
OnlyTheSortCrashes ==
    /\ SortCrashed => SortRaises(seen_first) /\ LogHas("Traceback")
    /\ C1_FetchLoop
    /\ ~SortCrashed => C1_SinksExecuted /\ C3_RankAndCap

LastLog == IF log = <<>> THEN "" ELSE log[Len(log)].msg

JsonAttempted == LogHas("Wrote feeds.json") \/ LogHas("WARNING feeds.json")

OneRegion(html) ==
    /\ Cardinality({i \in DOMAIN html : html[i] = MARKER_START}) = 1
    /\ Cardinality({i \in DOMAIN html : html[i] = MARKER_END}) = 1
    /\ IndexOf(html, MARKER_START) < IndexOf(html, MARKER_END)

\* C7: for any document with both markers and any payload, the inline write
\* replaces the region from the start marker through the end marker by the
\* block (start marker, payload, end marker) and leaves the text outside
\* unchanged, and a second write with the same payload changes nothing.
C7_IdempotentInline ==
    [][ (pc = "inline" /\ inline_writes' = inline_writes + 1) =>
          /\ OneRegion(index_html) =>
                index_html' =
                    SubSeq(index_html, 1, IndexOf(index_html, MARKER_START) - 1)
                    \o InlineJs(payload)
                    \o SubSeq(index_html, IndexOf(index_html, MARKER_END) + 1,
                              Len(index_html))
          /\ inline_writes >= 1 => index_html' = index_html ]_vars

-----------------------------------------------------------------------------
(* Digest job: the checkpoint file *)

DigitChars == <<"0", "1", "2", "3", "4", "5", "6", "7", "8", "9">>

\* str(ts) for ts >= 0
RECURSIVE Str(_)
Str(n) == IF n < 10 THEN <<DigitChars[n + 1]>>
          ELSE Str(n \div 10) \o <<DigitChars[(n % 10) + 1]>>

IsSpace(c) == c \in {" ", "\n"}
IsDigit(c) == \E d \in DOMAIN DigitChars : DigitChars[d] = c
DigitVal(c) == (CHOOSE d \in DOMAIN DigitChars : DigitChars[d] = c) - 1

\* text.strip()
RECURSIVE Strip(_)
Strip(t) ==
    IF t # <<>> /\ IsSpace(t[1]) THEN Strip(Tail(t))
    ELSE IF t # <<>> /\ IsSpace(t[Len(t)]) THEN Strip(SubSeq(t, 1, Len(t) - 1))
    ELSE t

RECURSIVE DigitsVal(_)
DigitsVal(t) == IF t = <<>> THEN 0
                ELSE 10 * DigitsVal(SubSeq(t, 1, Len(t) - 1)) + DigitVal(t[Len(t)])

Unsigned(t) == IF t # <<>> /\ t[1] \in {"+", "-"} THEN Tail(t) ELSE t

\* int(t): <<value>>, or <<>> for ValueError
ParseInt(t) ==
    IF Unsigned(t) # <<>> /\ \A i \in DOMAIN Unsigned(t) : IsDigit(Unsigned(t)[i])
    THEN <<IF t[1] = "-" THEN 0 - DigitsVal(Unsigned(t)) ELSE DigitsVal(Unsigned(t))>>
    ELSE <<>>

NoFile == [exists |-> FALSE, text |-> <<>>]
FileWith(t) == [exists |-> TRUE, text |-> t]

load_last_run_timestamp(file) ==
    IF file.exists /\ ParseInt(Strip(file.text)) # <<>>
    THEN ParseInt(Strip(file.text))[1]
    ELSE 0

-----------------------------------------------------------------------------
(* Digest job: search & fetch *)

\* fetch_message_details: internalDate is milliseconds
Epoch(m) == m.internalDate \div 1000

InsertNewest(sorted, m) ==
    LET older == {i \in DOMAIN sorted : Epoch(sorted[i]) < Epoch(m)}
        p == IF older = {} THEN Len(sorted) + 1
             ELSE CHOOSE i \in older : \A j \in older : i <= j
    IN  SubSeq(sorted, 1, p - 1) \o <<m>> \o SubSeq(sorted, p, Len(sorted))

\* Mutant: the secondary filter keeps a message stamped at the checkpoint.
RECURSIVE ParsedFrom_NotStrict(_, _, _, _, _)
ParsedFrom_NotStrict(found, i, failed, since_epoch, parsed) ==
    IF i > Len(found) THEN parsed
    ELSE IF found[i].id \notin failed /\ Epoch(found[i]) >= since_epoch
         THEN ParsedFrom_NotStrict(found, i + 1, failed, since_epoch,
                                   Append(parsed, found[i]))
         ELSE ParsedFrom_NotStrict(found, i + 1, failed, since_epoch, parsed)

RECURSIVE ParsedFrom(_, _, _, _, _)
ParsedFrom(found, i, failed, since_epoch, parsed) ==
    IF i > Len(found) THEN parsed
    ELSE IF found[i].id \notin failed /\ Epoch(found[i]) > since_epoch
         THEN ParsedFrom(found, i + 1, failed, since_epoch, Append(parsed, found[i]))
         ELSE ParsedFrom(found, i + 1, failed, since_epoch, parsed)

RECURSIVE NewestFirstFrom(_, _, _)
NewestFirstFrom(parsed, i, sorted) ==
    IF i > Len(parsed) THEN sorted
    ELSE NewestFirstFrom(parsed, i + 1, InsertNewest(sorted, parsed[i]))

\* lines 191-202, for the candidates found of which the detail fetch of
\* those in failed raised HttpError
fetch_matching_messages(found, failed, since_epoch) ==
    NewestFirstFrom(ParsedFrom(found, 1, failed, since_epoch, <<>>), 1, <<>>)

\* epoch_to_gmail_date: the calendar day of an epoch
Day(epoch_secs) == epoch_secs \div DayLen

\* The messages the query selects: all keyword matches, from the day of
\* since_epoch on when the query carries an after: term.
Query(box, since_epoch) ==
    {m \in box : since_epoch > 0 => Day(Epoch(m)) >= Day(since_epoch)}

Listings(S) ==
    {f \in [1..Cardinality(S) -> S] : \A i, j \in DOMAIN f : f[i] = f[j] => i = j}

-----------------------------------------------------------------------------
(* Digest job: inputs of the model *)

\* The clock when the first digest run may start.
StartClock == MaxClock - 2

\* --since, when given, names an epoch before the first run.
\* --auth ends the run before the other two flags are read.
ArgSets == {[auth |-> TRUE, since |-> <<>>, dry_run |-> FALSE]}
           \cup [auth : {FALSE}, since : {<<>>, <<StartClock - 1>>}, dry_run : BOOLEAN]

\* What LAST_RUN_FILE can hold before the first run: nothing, text that is
\* no integer, or an epoch a previous run wrote.
InitFiles == {NoFile, FileWith(<<"9", "x">>),
              FileWith(Str(StartClock - 2)),
              FileWith(Str(StartClock) \o <<"\n">>)}

FeedIdle ==
    /\ pc = "exited" /\ feed_i = 1 /\ all_articles = <<>> /\ ok_count = 0
    /\ err_count = 0 /\ results = <<>> /\ dedup = <<>> /\ seen_first = <<>>
    /\ payload = <<>> /\ feeds_json = <<>> /\ index_html = <<>>
    /\ html_at_start = <<>> /\ log = <<>> /\ exit_code = 0 /\ inline_writes = 0

InitDigest ==
    /\ gpc = "idle"
    /\ now = StartClock
    /\ last_run_file \in InitFiles
    /\ mailbox = {}
    /\ args = [auth |-> FALSE, since |-> <<>>, dry_run |-> FALSE]
    /\ since = 0
    /\ run_start_epoch = 0
    /\ messages = <<>>
    /\ send_calls = 0
    /\ sent = "none"
    /\ save_calls = 0
    /\ file_at_start = last_run_file
    /\ gexit = 0
    /\ runs = 0
    /\ skipped = {}
    /\ fatal = "none"
    /\ prev = [saved |-> FALSE, returned |-> {}]
    /\ FeedIdle
    /\ RssIdle

-----------------------------------------------------------------------------
(* Digest job: the environment *)

Tick ==
    /\ now < MaxClock
    /\ now' = now + 1
    /\ UNCHANGED <<gpc, last_run_file, mailbox, args, since, run_start_epoch,
                   messages, send_calls, sent, save_calls, file_at_start, gexit, runs>>
    /\ UNCHANGED <<skipped, fatal, prev>>
    /\ UNCHANGED feedVars
    /\ UNCHANGED rssVars

\* The millisecond part of a provider timestamp: the end of the second,
\* where flooring and rounding differ.
Millis == {999}

\* A keyword-matching message is delivered; the provider stamps it. The
\* field during notes the run in progress at that moment (0: none).
Arrive ==
    /\ Cardinality(mailbox) < MaxMsgs
    /\ \E ms \in Millis :
          mailbox' = mailbox \cup {[id |-> Cardinality(mailbox) + 1,
                                    internalDate |-> now * 1000 + ms,
                                    during |-> IF gpc \in {"idle", "done"}
                                               THEN 0 ELSE runs]}
    /\ UNCHANGED <<gpc, now, last_run_file, args, since, run_start_epoch,
                   messages, send_calls, sent, save_calls, file_at_start, gexit, runs>>
    /\ UNCHANGED <<skipped, fatal, prev>>
    /\ UNCHANGED feedVars
    /\ UNCHANGED rssVars

-----------------------------------------------------------------------------
(* Digest job: main() *)

\* lines 371-392: cron starts the script, one run at a time
StartRun ==
    /\ gpc \in {"idle", "done"}
    /\ runs < MaxRuns
    /\ args' \in ArgSets
    /\ runs' = runs + 1
    /\ gpc' = "auth"
    /\ messages' = <<>>
    /\ send_calls' = 0
    /\ sent' = "none"
    /\ save_calls' = 0
    /\ file_at_start' = last_run_file
    /\ gexit' = 0
    /\ since' = 0
    /\ run_start_epoch' = 0
    /\ UNCHANGED <<now, last_run_file, mailbox>>
    /\ skipped' = {}
    /\ fatal' = "none"
    /\ prev' = IF save_calls = 1
               THEN [saved |-> TRUE,
                     returned |-> {messages[i].id : i \in DOMAIN messages}]
               ELSE [saved |-> FALSE, returned |-> {}]
    /\ UNCHANGED feedVars
    /\ UNCHANGED rssVars

\* lines 394-398: get_gmail_service returned a service
AuthOk ==
    /\ gpc = "auth"
    /\ gpc' = IF args.auth THEN "done" ELSE "begin"
    /\ gexit' = 0
    /\ UNCHANGED <<now, last_run_file, mailbox, args, since, run_start_epoch,
                   messages, send_calls, sent, save_calls, file_at_start, runs>>
    /\ UNCHANGED <<skipped, fatal, prev>>
    /\ UNCHANGED feedVars
    /\ UNCHANGED rssVars

\* lines 105-112: no token and no credentials.json, sys.exit(1)
AuthNoCredentials ==
    /\ gpc = "auth"
    /\ gpc' = "done"
    /\ gexit' = 1
    /\ UNCHANGED <<now, last_run_file, mailbox, args, since, run_start_epoch,
                   messages, send_calls, sent, save_calls, file_at_start, runs>>
    /\ fatal' = "credentials"
    /\ UNCHANGED <<skipped, prev>>
    /\ UNCHANGED feedVars
    /\ UNCHANGED rssVars

\* lines 400-401
Begin ==
    /\ gpc = "begin"
    /\ since' = IF args.since # <<>> THEN args.since[1]
                ELSE load_last_run_timestamp(last_run_file)
    /\ run_start_epoch' = now
    /\ gpc' = "search"
    /\ UNCHANGED <<now, last_run_file, mailbox, args, messages, send_calls,
                   sent, save_calls, file_at_start, gexit, runs>>
    /\ UNCHANGED <<skipped, fatal, prev>>
    /\ UNCHANGED feedVars
    /\ UNCHANGED rssVars

\* lines 177-181 and 405-407: a list call raised HttpError
SearchFail ==
    /\ gpc = "search"
    /\ gpc' = "done"
    /\ gexit' = 1
    /\ UNCHANGED <<now, last_run_file, mailbox, args, since, run_start_epoch,
                   messages, send_calls, sent, save_calls, file_at_start, runs>>
    /\ fatal' = "list"
    /\ UNCHANGED <<skipped, prev>>
    /\ UNCHANGED feedVars
    /\ UNCHANGED rssVars

\* lines 403-404 with 157-202: the pages list, in some order, the messages
\* the query matches, and some detail fetches raise HttpError
SearchOk ==
    /\ gpc = "search"
    /\ \E found \in Listings(Query(mailbox, since)) :
          \E bad \in SUBSET {found[i].id : i \in DOMAIN found} :
              /\ messages' = fetch_matching_messages(found, bad, since)
              /\ skipped' = bad
    /\ gpc' = "notify"
    /\ UNCHANGED <<now, last_run_file, mailbox, args, since, run_start_epoch,
                   send_calls, sent, save_calls, file_at_start, gexit, runs>>
    /\ UNCHANGED <<fatal, prev>>
    /\ UNCHANGED feedVars
    /\ UNCHANGED rssVars

\* lines 409-410
NotifyNothing ==
    /\ gpc = "notify"
    /\ messages = <<>>
    /\ gpc' = "save"
    /\ UNCHANGED <<now, last_run_file, mailbox, args, since, run_start_epoch,
                   messages, send_calls, sent, save_calls, file_at_start, gexit, runs>>
    /\ UNCHANGED <<skipped, fatal, prev>>
    /\ UNCHANGED feedVars
    /\ UNCHANGED rssVars

\* lines 413-416
NotifyDryRun ==
    /\ gpc = "notify"
    /\ messages # <<>>
    /\ args.dry_run
    /\ gpc' = "save"
    /\ UNCHANGED <<now, last_run_file, mailbox, args, since, run_start_epoch,
                   messages, send_calls, sent, save_calls, file_at_start, gexit, runs>>
    /\ UNCHANGED <<skipped, fatal, prev>>
    /\ UNCHANGED feedVars
    /\ UNCHANGED rssVars

\* lines 417-418 with 355-360: the send endpoint answered, send_alert
\* returns True (main ignores it)
NotifySendOk ==
    /\ gpc = "notify"
    /\ messages # <<>>
    /\ ~args.dry_run
    /\ send_calls' = send_calls + 1
    /\ sent' = "ok"
    /\ gpc' = "save"
    /\ UNCHANGED <<now, last_run_file, mailbox, args, since, run_start_epoch,
                   messages, save_calls, file_at_start, gexit, runs>>
    /\ UNCHANGED <<skipped, fatal, prev>>
    /\ UNCHANGED feedVars
    /\ UNCHANGED rssVars

\* Mutant: a failed send ends the run with exit status 1.
NotifySendFail_Fatal ==
    /\ gpc = "notify"
    /\ messages # <<>>
    /\ ~args.dry_run
    /\ send_calls' = send_calls + 1
    /\ sent' = "failed"
    /\ gpc' = "done"
    /\ gexit' = 1
    /\ UNCHANGED <<now, last_run_file, mailbox, args, since, run_start_epoch,
                   messages, save_calls, file_at_start, runs>>
    /\ UNCHANGED <<skipped, fatal, prev>>
    /\ UNCHANGED feedVars
    /\ UNCHANGED rssVars

\* lines 417-418 with 361-363: the send endpoint raised HttpError,
\* send_alert logs it and returns False
NotifySendFail ==
    /\ gpc = "notify"
    /\ messages # <<>>
    /\ ~args.dry_run
    /\ send_calls' = send_calls + 1
    /\ sent' = "failed"
    /\ gpc' = "save"
    /\ UNCHANGED <<now, last_run_file, mailbox, args, since, run_start_epoch,
                   messages, save_calls, file_at_start, gexit, runs>>
    /\ UNCHANGED <<skipped, fatal, prev>>
    /\ UNCHANGED feedVars
    /\ UNCHANGED rssVars

\* Mutant: the checkpoint is the clock at the end of the run.
Save_ClockAtEnd ==
    /\ gpc = "save"
    /\ IF ~args.dry_run
       THEN /\ last_run_file' = FileWith(Str(now))
            /\ save_calls' = save_calls + 1
       ELSE UNCHANGED <<last_run_file, save_calls>>
    /\ gpc' = "done"
    /\ gexit' = 0
    /\ UNCHANGED <<now, mailbox, args, since, run_start_epoch, messages,
                   send_calls, sent, file_at_start, runs>>
    /\ UNCHANGED <<skipped, fatal, prev>>
    /\ UNCHANGED feedVars
    /\ UNCHANGED rssVars

\* Mutant: the rehearsal flag is not consulted.
Save_IgnoresDryRun ==
    /\ gpc = "save"
    /\ last_run_file' = FileWith(Str(run_start_epoch))
    /\ save_calls' = save_calls + 1
    /\ gpc' = "done"
    /\ gexit' = 0
    /\ UNCHANGED <<now, mailbox, args, since, run_start_epoch, messages,
                   send_calls, sent, file_at_start, runs>>
    /\ UNCHANGED <<skipped, fatal, prev>>
    /\ UNCHANGED feedVars
    /\ UNCHANGED rssVars

\* Mutant: the checkpoint is the bound the search used.
Save_Since ==
    /\ gpc = "save"
    /\ IF ~args.dry_run
       THEN /\ last_run_file' = FileWith(Str(since))
            /\ save_calls' = save_calls + 1
       ELSE UNCHANGED <<last_run_file, save_calls>>
    /\ gpc' = "done"
    /\ gexit' = 0
    /\ UNCHANGED <<now, mailbox, args, since, run_start_epoch, messages,
                   send_calls, sent, file_at_start, runs>>
    /\ UNCHANGED <<skipped, fatal, prev>>
    /\ UNCHANGED feedVars
    /\ UNCHANGED rssVars

\* lines 420-424 with 142-144
Save ==
    /\ gpc = "save"
    /\ IF ~args.dry_run
       THEN /\ last_run_file' = FileWith(Str(run_start_epoch))
            /\ save_calls' = save_calls + 1
       ELSE UNCHANGED <<last_run_file, save_calls>>
    /\ gpc' = "done"
    /\ gexit' = 0
    /\ UNCHANGED <<now, mailbox, args, since, run_start_epoch, messages,
                   send_calls, sent, file_at_start, runs>>
    /\ UNCHANGED <<skipped, fatal, prev>>
    /\ UNCHANGED feedVars
    /\ UNCHANGED rssVars

NextDigest ==
    \/ Tick
    \/ Arrive
    \/ StartRun
    \/ AuthOk
    \/ AuthNoCredentials
    \/ Begin
    \/ SearchFail
    \/ SearchOk
    \/ NotifyNothing
    \/ NotifyDryRun
    \/ NotifySendOk
    \/ NotifySendFail
    \/ Save

SpecDigest == InitDigest /\ [][NextDigest]_vars

-----------------------------------------------------------------------------
(* Claims about the digest job *)

PastSearch == gpc = "done" /\ gexit = 0 /\ ~args.auth

\* C8: every non-rehearsal run that gets past search & fetch ends with the
\* checkpoint file holding the epoch captured at the start of the run,
\* whether no message qualified, the send succeeded or the send failed, and
\* also when --since overrode the checkpoint.
C8_CheckpointAdvance ==
    (PastSearch /\ ~args.dry_run) =>
        /\ last_run_file = FileWith(Str(run_start_epoch))
        /\ load_last_run_timestamp(last_run_file) = run_start_epoch
        /\ save_calls = 1
        /\ run_start_epoch <= now

\* A run whose send failed, with --since given, that took time and found a
\* message newer than its start.
C8_Witness ==
    /\ PastSearch
    /\ ~args.dry_run
    /\ args.since # <<>>
    /\ sent = "failed"
    /\ now > run_start_epoch
    /\ Epoch(messages[1]) > run_start_epoch
    /\ load_last_run_timestamp(file_at_start) # run_start_epoch

\* C9: a rehearsal run never calls the send endpoint and never writes the
\* checkpoint file; any other run calls the send endpoint at most once, and
\* only when a message survived the filter.
C9_Rehearsal ==
    /\ args.dry_run =>
          /\ send_calls = 0
          /\ sent = "none"
          /\ save_calls = 0
          /\ last_run_file = file_at_start
    /\ ~args.dry_run =>
          /\ send_calls <= 1
          /\ send_calls = 1 => messages # <<>>

C9_Witness ==
    /\ gpc = "done"
    /\ gexit = 0
    /\ args.dry_run
    /\ ~args.auth
    /\ Len(messages) = 2
    /\ runs = 2
    /\ last_run_file = FileWith(Str(StartClock))
    /\ now > StartClock

\* The file holds no integer: it is missing, or its text without the
\* surrounding white space and one leading sign is not a non-empty string
\* of decimal digits.
Digits(t) ==
    /\ t # <<>>
    /\ \A i \in DOMAIN t :
          t[i] \in {"0", "1", "2", "3", "4", "5", "6", "7", "8", "9"}

NonInteger(file) ==
    \/ ~file.exists
    \/ Strip(file.text) = <<>>
    \/ /\ ~Digits(Strip(file.text))
       /\ ~(Strip(file.text)[1] \in {"+", "-"} /\ Digits(Tail(Strip(file.text))))

\* C10: a run leaves in the checkpoint file a value, as the next run reads
\* it, that is not below the one it found (file_at_start is the file as the
\* previous run left it), and a missing or non-integer file is read as 0.
C10_CheckpointMonotone ==
    /\ save_calls <= 1
    /\ save_calls = 0 => last_run_file = file_at_start
    /\ load_last_run_timestamp(last_run_file)
          >= load_last_run_timestamp(file_at_start)
    /\ NonInteger(last_run_file) => load_last_run_timestamp(last_run_file) = 0
    /\ (gpc = "search" /\ args.since = <<>> /\ NonInteger(file_at_start))
          => since = 0

\* The second run in a row advanced a checkpoint the first one had written
\* over a file that held no integer.
C10_Witness ==
    /\ runs = 2
    /\ gpc = "done"
    /\ save_calls = 1
    /\ load_last_run_timestamp(file_at_start) > 0
    /\ load_last_run_timestamp(last_run_file)
          > load_last_run_timestamp(file_at_start)
    /\ args.since # <<>>

\* The provider timestamp in whole seconds, as the claim words it.
Seconds(m) == m.internalDate \div 1000

\* C11: in every search step, each returned message is stamped strictly
\* after the checkpoint, each candidate of the result pages whose detail
\* fetch succeeded and that is stamped strictly after the checkpoint is
\* returned, and the returned list is ordered newest-first.
C11_SecondaryFilter ==
    [][(gpc = "search" /\ gpc' = "notify") =>
          /\ \A i \in DOMAIN messages' :
                /\ Seconds(messages'[i]) > since
                /\ messages'[i] \in Query(mailbox, since)
                /\ messages'[i].id \notin skipped'
          /\ \A m \in Query(mailbox, since) :
                (m.id \notin skipped' /\ Seconds(m) > since)
                    => \E i \in DOMAIN messages' : messages'[i] = m
          /\ \A i, j \in DOMAIN messages' :
                i < j => Seconds(messages'[i]) >= Seconds(messages'[j])
      ]_vars

\* A search that returned one message and dropped another one, stamped in
\* the very second of the checkpoint, whose detail fetch had succeeded.
C11_Witness ==
    /\ gpc = "notify"
    /\ skipped = {}
    /\ since > 0
    /\ Len(messages) = 1
    /\ \E m \in mailbox :
          /\ Seconds(m) = since
          /\ m.internalDate > since * 1000
          /\ m \in Query(mailbox, since)

\* C12: a finished run has a nonzero exit status exactly when it found no
\* credential source or a message list call failed, and then it sent no
\* digest and left the checkpoint file as it was; a run in which a detail
\* fetch or the send failed ends with exit status 0.
C12_ExitStatus ==
    gpc = "done" =>
        /\ gexit # 0 <=> fatal \in {"credentials", "list"}
        /\ gexit # 0 =>
              /\ send_calls = 0
              /\ sent = "none"
              /\ save_calls = 0
              /\ last_run_file = file_at_start
        /\ (fatal = "none" /\ (skipped # {} \/ sent = "failed")) => gexit = 0

\* The second run failed in the list call, with mail waiting and the
\* checkpoint the first run had written still in the file.
C12_Witness ==
    /\ gpc = "done"
    /\ runs = 2
    /\ fatal = "list"
    /\ gexit = 1
    /\ prev.saved
    /\ mailbox # {}
    /\ last_run_file = FileWith(Str(StartClock))

\* Run N+1 = runs is past a successful search, neither it nor run N = runs - 1
\* was a rehearsal, and run N wrote its checkpoint.
AfterNextSearch ==
    /\ runs >= 2
    /\ gpc \in {"notify", "save", "done"}
    /\ fatal = "none"
    /\ ~args.auth
    /\ ~args.dry_run
    /\ prev.saved

\* The messages that arrived while run N was in progress, stamped at or
\* after the epoch from_epoch, that run N's search did not return and whose
\* detail fetch succeeded in run N+1.
LeftByPrevious(from_epoch) ==
    {m \in mailbox : /\ m.during = runs - 1
                     /\ m.id \notin prev.returned
                     /\ Seconds(m) >= from_epoch
                     /\ m.id \notin skipped}

\* C15: a message that arrives while run N is in progress, stamped at or
\* after run N's start-of-run epoch, and that run N's search did not return
\* is returned by the search & fetch of run N+1.
C15_NoGaps ==
    AfterNextSearch =>
        \A m \in LeftByPrevious(load_last_run_timestamp(file_at_start)) :
            \E i \in DOMAIN messages : messages[i] = m

\* The same holds of the messages stamped after the second in which run N
\* started: only that second is lost.
NoGapsAfterStartSecond ==
    AfterNextSearch =>
        \A m \in LeftByPrevious(load_last_run_timestamp(file_at_start) + 1) :
            \E i \in DOMAIN messages : messages[i] = m

-----------------------------------------------------------------------------
(* fetch_rss: relevance filter and element extraction *)

\* A text is a sequence of characters; "<t>" stands for one markup tag.

\* RELEVANCE_KEYWORDS, cut to a one-word and a two-word keyword
RELEVANCE_KEYWORDS == {<<"h", "p">>, <<"p", " ", "h">>}

MAX_RELEVANT_PER_FILTERED_FEED == 5

\* str.lower()
Lower(t) == [i \in DOMAIN t |-> IF t[i] = "H" THEN "h" ELSE t[i]]

\* kw in haystack
Contains(haystack, kw) ==
    \E k \in 0..(Len(haystack) - Len(kw)) :
        SubSeq(haystack, k + 1, k + Len(kw)) = kw

is_relevant(title, description) ==
    LET haystack == Lower(title \o <<" ">> \o description)
    IN  \E kw \in RELEVANCE_KEYWORDS : Contains(haystack, kw)

\* " ".join(text.split())
RECURSIVE JoinSplit(_)
JoinSplit(t) ==
    IF t = <<>> THEN <<>>
    ELSE IF t[1] = " " THEN JoinSplit(Tail(t))
    ELSE LET rest == JoinSplit(Tail(t))
         IN  IF Len(t) >= 2 /\ t[2] = " " /\ rest # <<>>
             THEN <<t[1], " ">> \o rest
             ELSE <<t[1]>> \o rest

\* strip_html: every tag becomes a blank, white space is collapsed (the
\* texts of the model hold no character entity)
strip_html(text) ==
    JoinSplit([i \in DOMAIN text |-> IF text[i] = "<t>" THEN " " ELSE text[i]])

\* seq[:n]
Take(seq, n) == SubSeq(seq, 1, Min(n, Len(seq)))

\* lines 217-221: the article built from a title, link and description
Article(feed, title, link, desc) ==
    [source |-> feed.label, title |-> title, link |-> link,
     description |-> Take(desc, DescKeep)]

\* lines 216-221 and 234-239: the test an element passes to be appended
Accepted(feed, title, link, desc) ==
    /\ title # <<>>
    /\ link # <<>>
    /\ ~feed.filtered \/ is_relevant(title, desc)

\* lines 210-221: the loop over the item elements
RECURSIVE RssFrom(_, _, _, _)
RssFrom(feed, els, i, items) ==
    IF i > Len(els) THEN items
    ELSE LET title == strip_html(els[i].title)
             link  == Strip(els[i].link)
             desc  == strip_html(els[i].desc)
             more  == Append(items, Article(feed, title, link, desc))
         IN  IF Accepted(feed, title, link, desc)
             THEN IF feed.filtered /\ Len(more) >= MAX_RELEVANT_PER_FILTERED_FEED
                  THEN more
                  ELSE RssFrom(feed, els, i + 1, more)
             ELSE RssFrom(feed, els, i + 1, items)

\* Element.__bool__: an element is true when it has children
Truthy(el) == el.children

\* entry.find(path): <<the first matching element>>, or <<>> for None
Find(links, alternate_only) ==
    LET hits == {k \in DOMAIN links : ~alternate_only \/ links[k].rel = "alternate"}
    IN  IF hits = {} THEN <<>>
        ELSE <<links[CHOOSE k \in hits : \A l \in hits : k <= l]>>

\* lines 227-228: find(alternate) or find(any), then the stripped href
AtomLink(links) ==
    LET alt     == Find(links, TRUE)
        link_el == IF alt # <<>> /\ Truthy(alt[1]) THEN alt ELSE Find(links, FALSE)
    IN  IF link_el # <<>> THEN Strip(link_el[1].href) ELSE <<>>

\* lines 225-239: the loop over the atom:entry elements
RECURSIVE AtomFrom(_, _, _, _)
AtomFrom(feed, els, i, items) ==
    IF i > Len(els) THEN items
    ELSE LET title == strip_html(els[i].title)
             link  == AtomLink(els[i].links)
             desc  == strip_html(els[i].desc)
             more  == Append(items, Article(feed, title, link, desc))
         IN  IF Accepted(feed, title, link, desc)
             THEN IF feed.filtered /\ Len(more) >= MAX_RELEVANT_PER_FILTERED_FEED
                  THEN more
                  ELSE AtomFrom(feed, els, i + 1, more)
             ELSE AtomFrom(feed, els, i + 1, items)

\* lines 196-241, from the parsed document on
fetch_rss(feed, root) ==
    LET items == RssFrom(feed, Take(root.items, feed.fetch_limit), 1, <<>>)
    IN  IF items = <<>>
        THEN AtomFrom(feed, Take(root.entries, feed.fetch_limit), 1, <<>>)
        ELSE items

-----------------------------------------------------------------------------
(* fetch_rss: inputs of the model, and the call observed on its own *)

\* empty, markup only, no keyword, a keyword in capitals, the first word of
\* the two-word keyword
Titles == {<<>>, <<"<t>", " ">>, <<"x">>, <<"H", "p">>, <<"x", " ", "p">>}

\* empty, the second word of the two-word keyword, a keyword past DescKeep
Descs == {<<>>, <<"h", "<t>", "x">>, <<"x", "x", "H", "p">>}

\* the text of an RSS link element: blank, or a URL after a blank
RssLinks == {<<" ">>, <<" ", "u">>}

ItemEls == [title : Titles, link : RssLinks, desc : Descs]

LinkEl(rel, href, children) == [rel |-> rel, href |-> href, children |-> children]

\* the atom:link elements of an entry, in document order
LinkLists ==
    {<<>>,
     <<LinkEl("alternate", <<"u">>, FALSE)>>,
     <<LinkEl("self", <<"v">>, FALSE)>>,
     <<LinkEl("self", <<"v">>, FALSE), LinkEl("alternate", <<"u">>, FALSE)>>,
     <<LinkEl("self", <<"v">>, FALSE), LinkEl("alternate", <<"u">>, TRUE)>>,
     <<LinkEl("self", <<>>, FALSE), LinkEl("alternate", <<"u">>, FALSE)>>,
     <<LinkEl("self", <<"v">>, FALSE), LinkEl("alternate", <<>>, FALSE)>>}

EntryEls == [title : {<<>>, <<"x">>, <<"H", "p">>}, links : LinkLists,
             desc : {<<>>, <<"x", "x", "H", "p">>}]

\* Documents with at most MaxEntries item and entry elements together.
Roots ==
    UNION {[items : [1..n -> ItemEls], entries : [1..m -> EntryEls]] :
              <<n, m>> \in {nm \in (0..MaxEntries) \X (0..MaxEntries) :
                                nm[1] + nm[2] <= MaxEntries}}

RssFeeds == [label : {1}, filtered : BOOLEAN, fetch_limit : {1, 2}]

InitRss ==
    /\ rss_pc = "called"
    /\ rss_feed \in RssFeeds
    /\ rss_root \in Roots
    /\ rss_items = <<>>
    /\ FeedIdle
    /\ DigestIdle

\* lines 205-241: the document was fetched and parsed, the two loops run
ParseFeed ==
    /\ rss_pc = "called"
    /\ rss_items' = fetch_rss(rss_feed, rss_root)
    /\ rss_pc' = "returned"
    /\ UNCHANGED <<rss_feed, rss_root>>
    /\ UNCHANGED feedVars
    /\ UNCHANGED digestVars

NextRss == ParseFeed

SpecRss == InitRss /\ [][NextRss]_vars

-----------------------------------------------------------------------------
(* Claims about fetch_rss *)

\* The link of an Atom entry as specified: the href of the first link
\* element of relation alternate, or of the first link element of any
\* relation when there is none, without surrounding white space.
PreferredLink(links) ==
    LET alts == {k \in DOMAIN links : links[k].rel = "alternate"}
    IN  IF alts # {} THEN Strip(links[CHOOSE k \in alts : \A l \in alts : k <= l].href)
        ELSE IF links # <<>> THEN Strip(links[1].href)
        ELSE <<>>

\* The link fetch_rss takes from an Atom entry.
ChosenLink(links) == AtomLink(links)

\* The cleaned fields of the elements within the fetch limit; the link of
\* an entry is what LinkOf makes of its link elements.
ItemsSeen ==
    {[title |-> strip_html(e.title), link |-> Strip(e.link), desc |-> strip_html(e.desc)] :
        e \in Range(Take(rss_root.items, rss_feed.fetch_limit))}

EntriesSeen(LinkOf(_)) ==
    {[title |-> strip_html(e.title), link |-> LinkOf(e.links), desc |-> strip_html(e.desc)] :
        e \in Range(Take(rss_root.entries, rss_feed.fetch_limit))}

\* The article is the emission of the element, whatever link it carries.
Emits(a, e) == a.title = e.title /\ a.description = Take(e.desc, DescKeep)

HasKeyword(e) ==
    \E kw \in RELEVANCE_KEYWORDS : Contains(Lower(e.title \o <<" ">> \o e.desc), kw)

\* The claim of C13 for a given reading of "the link of an Atom entry".
RelevanceScope(LinkOf(_)) ==
    LET seen == ItemsSeen \cup EntriesSeen(LinkOf)
        due  == IF rss_root.items = <<>> THEN EntriesSeen(LinkOf) ELSE ItemsSeen
    IN  /\ rss_feed.filtered =>
              \A k \in DOMAIN rss_items :
                  \E e \in seen : Emits(rss_items[k], e) /\ HasKeyword(e)
        /\ ~rss_feed.filtered =>
              \A e \in due :
                  (e.title # <<>> /\ e.link # <<>>)
                      => \E k \in DOMAIN rss_items : Emits(rss_items[k], e)
        /\ \A k \in DOMAIN rss_items :
              /\ rss_items[k].title # <<>>
              /\ rss_items[k].link # <<>>
              /\ \E e \in seen :
                    Emits(rss_items[k], e) /\ e.title # <<>> /\ e.link # <<>>

\* C13: every article emitted for a filtered feed has a keyword in the
\* lowercased title + " " + description of its element; for an unfiltered
\* feed every element within the fetch limit with a non-empty title and a
\* non-empty link is emitted; no element with an empty title or an empty
\* link is emitted for either kind of feed.
C13_RelevanceScope ==
    rss_pc = "returned" => RelevanceScope(PreferredLink)

\* The same statement holds of the link fetch_rss itself takes: C13 fails
\* through the link selection only.
RelevanceScopeOnChosenLink ==
    rss_pc = "returned" => RelevanceScope(ChosenLink)

\* RSS extraction produces an article: an item within the fetch limit has
\* a title and a link and passes the feed's filter.
RssProduces ==
    \E e \in ItemsSeen :
        /\ e.title # <<>>
        /\ e.link # <<>>
        /\ ~rss_feed.filtered \/ HasKeyword(e)

\* C14: the Atom entries are used only when RSS extraction produced no
\* article, and then the link of every article is the href of the first
\* alternate link element of its entry, also when another link element
\* precedes it, and the href of the first link element of any relation
\* only when the entry has no alternate one.
C14_AtomLinkSelection ==
    rss_pc = "returned" =>
        /\ RssProduces =>
              \A k \in DOMAIN rss_items :
                  \E e \in ItemsSeen :
                      Emits(rss_items[k], e) /\ rss_items[k].link = e.link
        /\ ~RssProduces =>
              \A k \in DOMAIN rss_items :
                  \E e \in EntriesSeen(PreferredLink) :
                      Emits(rss_items[k], e) /\ rss_items[k].link = e.link

=============================================================================
